---- MODULE Spec2Model ----
(***************************************************************************)
(* HeteroFL baseline: the client -> model-rate scheduler                   *)
(* (Model_rate_manager, baselines/HeteroFL/HeteroFL/utils.py) and the      *)
(* centralized evaluation callback (gen_evaluate_fn.evaluate,              *)
(* baselines/heterofl/heterofl/server.py).                                 *)
(*                                                                         *)
(* Python strings are modelled as sequences of one-character strings, so   *)
(* that str.split, m[0], m[1:] and int() are computed as Python computes   *)
(* them.  Rates (floats 1.0, 0.5 in the repository's configuration) are    *)
(* modelled in sixteenths (16, 8); the code only copies them.              *)
(***************************************************************************)
EXTENDS Integers, Sequences, FiniteSets, TLC

VARIABLES sched, call, ref, net, loaders, ev

vars == <<sched, call, ref, net, loaders, ev>>
schedVars == <<sched, call, ref>>
evalVars == <<net, loaders, ev>>

(***************************************************************************)
(* Bounds of the explored input space.                                     *)
(***************************************************************************)
MaxUsers == 6
NegUsers == 1
MaxTokens == 2
NumKeys == 2
MaxClients == 2
MaxRound == 401

Users == (0 - NegUsers)..MaxUsers

(***************************************************************************)
(* Inputs of the scheduler's constructor.                                  *)
(***************************************************************************)
SplitModes == {"fix", "dynamic", "bogus"}
Catalogue == [c \in {"a", "b"} |-> IF c = "a" THEN 16 ELSE 8]
LevelChars == {"a", "b", "z"}
PropStrings == {<<"0">>, <<"1">>, <<"2">>, <<"x">>}
Tokens == {<<>>} \cup {<<c>> \o p : c \in LevelChars, p \in PropStrings}
TokenLists == UNION {[1..k -> Tokens] : k \in 1..MaxTokens}

RECURSIVE Join(_)
Join(ts) ==
  IF Len(ts) = 1 THEN ts[1]
  ELSE ts[1] \o <<"-">> \o Join(Tail(ts))

ModeStrings == {Join(ts) : ts \in TokenLists}

(***************************************************************************)
(* str.split("-"): the maximal runs between separators, empty runs kept.   *)
(***************************************************************************)
RECURSIVE SplitFrom(_, _, _)
SplitFrom(s, cur, acc) ==
  IF s = <<>> THEN Append(acc, cur)
  ELSE IF Head(s) = "-" THEN SplitFrom(Tail(s), <<>>, Append(acc, cur))
  ELSE SplitFrom(Tail(s), Append(cur, Head(s)), acc)

Split(s) == SplitFrom(s, <<>>, <<>>)

(***************************************************************************)
(* int(): a non-empty run of decimal digits, read in base ten; anything    *)
(* else of the modelled alphabet raises ValueError.                        *)
(***************************************************************************)
Digits == {"0", "1", "2", "3", "4", "5", "6", "7", "8", "9"}

DigitVal(c) ==
  CASE c = "0" -> 0 [] c = "1" -> 1 [] c = "2" -> 2 [] c = "3" -> 3
    [] c = "4" -> 4 [] c = "5" -> 5 [] c = "6" -> 6 [] c = "7" -> 7
    [] c = "8" -> 8 [] c = "9" -> 9

IsIntLiteral(p) == Len(p) > 0 /\ \A i \in 1..Len(p) : p[i] \in Digits

RECURSIVE IntOf(_)
IntOf(p) ==
  IF Len(p) = 0 THEN 0
  ELSE 10 * IntOf(SubSeq(p, 1, Len(p) - 1)) + DigitVal(p[Len(p)])

RECURSIVE SumSeq(_)
SumSeq(s) == IF s = <<>> THEN 0 ELSE Head(s) + SumSeq(Tail(s))

Repeat(x, n) == [i \in 1..n |-> x]

NoSched == [constructed |-> FALSE, model_split_mode |-> "",
            model_mode |-> <<>>]

NoCall == [outcome |-> "none", num_users |-> 0, exc |-> "",
           isNone |-> FALSE, value |-> <<>>]

NoRef == [set |-> FALSE, fresh |-> FALSE, other |-> FALSE, num_users |-> 0,
          outcome |-> "none", exc |-> "", value |-> <<>>]

Raised(e) == [outcome |-> "raised", exc |-> e, isNone |-> FALSE, value |-> <<>>]
Returned(v) == [outcome |-> "returned", exc |-> "", isNone |-> FALSE, value |-> v]
ReturnedNone == [outcome |-> "returned", exc |-> "", isNone |-> TRUE, value |-> <<>>]

(***************************************************************************)
(* The parsing loop of create_model_rate_mapping: for each token m, in     *)
(* order, model_split_rate[m[0]] then int(m[1:]).  The first failing       *)
(* token decides the exception.                                            *)
(***************************************************************************)
RECURSIVE ParseModes(_, _, _)
ParseModes(toks, rates, props) ==
  IF toks = <<>> THEN [exc |-> "", mode_rate |-> rates, proportion |-> props]
  ELSE LET m == Head(toks) IN
    IF Len(m) = 0
      THEN [exc |-> "IndexError", mode_rate |-> rates, proportion |-> props]
    ELSE IF m[1] \notin DOMAIN Catalogue
      THEN [exc |-> "KeyError", mode_rate |-> rates, proportion |-> props]
    ELSE IF ~IsIntLiteral(Tail(m))
      THEN [exc |-> "ValueError", mode_rate |-> rates, proportion |-> props]
    ELSE ParseModes(Tail(toks), Append(rates, Catalogue[m[1]]),
                    Append(props, IntOf(Tail(m))))

(***************************************************************************)
(* Variant of EmitBlocks: each block is put in front of the list.          *)
(***************************************************************************)
RECURSIVE EmitBlocksPrepend(_, _, _, _)
EmitBlocksPrepend(rates, props, base, acc) ==
  IF rates = <<>> THEN [exc |-> "", list |-> acc]
  ELSE IF base * Head(props) < 0 THEN [exc |-> "ValueError", list |-> acc]
  ELSE EmitBlocksPrepend(Tail(rates), Tail(props), base,
                         Repeat(Head(rates), base * Head(props)) \o acc)

(***************************************************************************)
(* The emitting loop of fix mode: np.repeat(rate, base * proportion) for   *)
(* each level in order; a negative repeat count raises ValueError.         *)
(***************************************************************************)
RECURSIVE EmitBlocks(_, _, _, _)
EmitBlocks(rates, props, base, acc) ==
  IF rates = <<>> THEN [exc |-> "", list |-> acc]
  ELSE IF base * Head(props) < 0 THEN [exc |-> "ValueError", list |-> acc]
  ELSE EmitBlocks(Tail(rates), Tail(props), base,
                  acc \o Repeat(Head(rates), base * Head(props)))

(***************************************************************************)
(* Variant of FixMapping: client_model_rate is not reset, the blocks are   *)
(* added to the list the previous call returned.                           *)
(***************************************************************************)
FixMappingStale(rates, props, num_users) ==
  IF SumSeq(props) = 0 THEN Raised("ZeroDivisionError")
  ELSE LET num_users_proportion == num_users \div SumSeq(props)
           blocks == EmitBlocks(rates, props, num_users_proportion, call.value)
           missing == num_users - Len(blocks.list)
       IN IF blocks.exc # "" THEN Raised(blocks.exc)
          ELSE IF missing <= 0 THEN Returned(blocks.list)
          ELSE IF Len(blocks.list) = 0 THEN Raised("IndexError")
          ELSE Returned(blocks.list
                        \o Repeat(blocks.list[Len(blocks.list)], missing))

(***************************************************************************)
(* Fix mode after parsing: base count, blocks, then the tail padded with   *)
(* the last element of the list built so far.                              *)
(***************************************************************************)
FixMapping(rates, props, num_users) ==
  IF SumSeq(props) = 0 THEN Raised("ZeroDivisionError")
  ELSE LET num_users_proportion == num_users \div SumSeq(props)
           blocks == EmitBlocks(rates, props, num_users_proportion, <<>>)
           missing == num_users - Len(blocks.list)
       IN IF blocks.exc # "" THEN Raised(blocks.exc)
          ELSE IF missing <= 0 THEN Returned(blocks.list)
          ELSE IF Len(blocks.list) = 0 THEN Raised("IndexError")
          ELSE Returned(blocks.list
                        \o Repeat(blocks.list[Len(blocks.list)], missing))

(***************************************************************************)
(* Dynamic mode after parsing: the outcomes torch.multinomial can produce: *)
(* any num_users indices of levels with non-zero probability, each mapped  *)
(* to its rate; it raises for a non-positive sample count and for the NaN  *)
(* probabilities that a zero sum yields.                                   *)
(***************************************************************************)
DynamicOutcomes(rates, props, num_users) ==
  IF SumSeq(props) = 0 \/ num_users <= 0 THEN {Raised("RuntimeError")}
  ELSE LET pos == {i \in 1..Len(props) : props[i] > 0}
           drawable == {rates[i] : i \in pos}
       IN {Returned(v) : v \in [1..num_users -> drawable]}

(***************************************************************************)
(* Model_rate_manager.__init__: stores the arguments and splits the        *)
(* mode string; nothing is parsed or validated here.                       *)
(***************************************************************************)
Construct(model_split_mode, model_mode) ==
  /\ sched' = [constructed |-> TRUE, model_split_mode |-> model_split_mode,
               model_mode |-> Split(model_mode)]
  /\ UNCHANGED <<call, ref>>
  /\ UNCHANGED evalVars

(***************************************************************************)
(* Variant of MappingOutcomes: the mode string is parsed before the split  *)
(* mode is looked at.                                                      *)
(***************************************************************************)
MappingOutcomesParseFirst(s, num_users) ==
  LET p == ParseModes(s.model_mode, <<>>, <<>>)
  IN IF p.exc # "" THEN {Raised(p.exc)}
     ELSE IF s.model_split_mode = "fix"
       THEN {FixMapping(p.mode_rate, p.proportion, num_users)}
     ELSE IF s.model_split_mode = "dynamic"
       THEN DynamicOutcomes(p.mode_rate, p.proportion, num_users)
     ELSE {ReturnedNone}

(***************************************************************************)
(* The outcomes of create_model_rate_mapping(num_users) on scheduler s.    *)
(***************************************************************************)
MappingOutcomes(s, num_users) ==
  IF s.model_split_mode = "fix"
    THEN LET p == ParseModes(s.model_mode, <<>>, <<>>)
         IN IF p.exc # "" THEN {Raised(p.exc)}
            ELSE {FixMapping(p.mode_rate, p.proportion, num_users)}
  ELSE IF s.model_split_mode = "dynamic"
    THEN LET p == ParseModes(s.model_mode, <<>>, <<>>)
         IN IF p.exc # "" THEN {Raised(p.exc)}
            ELSE DynamicOutcomes(p.mode_rate, p.proportion, num_users)
  ELSE {ReturnedNone}

(***************************************************************************)
(* Model_rate_manager.create_model_rate_mapping.  The scheduler object is  *)
(* only read.  ref is the observer's memory of one fix-mode call, kept to  *)
(* compare later calls against: any one call may be the one remembered,    *)
(* fresh while no call has followed it, other once a call with another     *)
(* num_users has followed it.                                              *)
(***************************************************************************)
CreateModelRateMapping(num_users) ==
  /\ sched.constructed
  /\ \E r \in MappingOutcomes(sched, num_users) :
       /\ call' = [outcome |-> r.outcome, num_users |-> num_users,
                   exc |-> r.exc, isNone |-> r.isNone, value |-> r.value]
       /\ \E remember \in IF sched.model_split_mode = "fix" /\ ~ref.set
                            THEN BOOLEAN ELSE {FALSE} :
            ref' = IF remember
                   THEN [set |-> TRUE, fresh |-> TRUE, other |-> FALSE,
                         num_users |-> num_users, outcome |-> r.outcome,
                         exc |-> r.exc, value |-> r.value]
                   ELSE IF ref.set
                   THEN [ref EXCEPT !.fresh = FALSE,
                           !.other = ref.other \/ num_users # ref.num_users]
                   ELSE ref
  /\ UNCHANGED sched
  /\ UNCHANGED evalVars

(***************************************************************************)
(* The data-source bundle handed to gen_evaluate_fn.  A per-client test    *)
(* loader is represented by the (loss, accuracy) pair the test function    *)
(* reports on it; label_split[i] identifies client i's label subset.       *)
(***************************************************************************)
ClientStubs == {[loss |-> 1, accuracy |-> 1], [loss |-> 2, accuracy |-> 0]}
TestLoaderStub == [loss |-> 3, accuracy |-> 1]
LabelSubset(i) == 10 + i

Bundles ==
  {[valloaders |-> v, label_split |-> [i \in 1..Len(v) |-> LabelSubset(i)]] :
     v \in UNION {[1..k -> ClientStubs] : k \in 0..MaxClients}}

ParamValues == {1, 2}
ParamLists == UNION {[1..k -> ParamValues] : k \in 0..(NumKeys + 1)}

NoEval == [outcome |-> "none", server_round |-> 0 - 1, nparams |-> 0,
           exc |-> "", loss |-> 0, metrics |-> <<>>, copied |-> 0,
           saved |-> <<>>, train_passes |-> 0, tests |-> <<>>,
           global_tests |-> 0]

(***************************************************************************)
(* heterofl.models.test(net, loader, label_split, device): the (loss,      *)
(* accuracy) pair of one test run.                                         *)
(***************************************************************************)
Test(model, loader) == <<loader.loss, loader.accuracy>>

(***************************************************************************)
(* zip(net.state_dict().keys(), parameters_ndarrays) and the OrderedDict   *)
(* built from it: key k is paired with array k, up to the shorter of the   *)
(* two.                                                                    *)
(***************************************************************************)
Min(a, b) == IF a <= b THEN a ELSE b

ZipStateDict(model, params) ==
  [k \in 1..Min(Len(model), Len(params)) |-> params[k]]

(***************************************************************************)
(* net.load_state_dict(state_dict, strict=True): every key present in      *)
(* state_dict is copied into the module, then missing keys raise           *)
(* RuntimeError.  (All arrays have the shape of their slot.)               *)
(***************************************************************************)
LoadStateDict(model, state_dict) ==
  [exc |-> IF Len(state_dict) < Len(model) THEN "RuntimeError" ELSE "",
   copied |-> Len(state_dict),
   model |-> [k \in 1..Len(model) |->
                IF k <= Len(state_dict) THEN state_dict[k] ELSE model[k]]]

(***************************************************************************)
(* The pass over the entire-train loader in training mode, without         *)
(* gradients: it refreshes the running statistics the model keeps; they    *)
(* are the last entry of its state.                                        *)
(***************************************************************************)
TrainStats == 9
StatsPass(model) == [model EXCEPT ![Len(model)] = TrainStats]

(***************************************************************************)
(* save_model(model, path): the state dict written under the run's output  *)
(* directory.                                                              *)
(***************************************************************************)
SaveModel(model, path) ==
  [path |-> <<"output_dir", path>>, state_dict |-> model]

CheckpointName(server_round) == <<"model_after_round_", server_round, ".pth">>

(***************************************************************************)
(* Variant of LocalMetrics: each client's result replaces the totals.      *)
(***************************************************************************)
RECURSIVE LocalMetricsOverwrite(_, _, _, _)
LocalMetricsOverwrite(model, bundle, i, acc) ==
  IF i > Len(bundle.valloaders) THEN acc
  ELSE LET client_test_res == Test(model, bundle.valloaders[i])
       IN LocalMetricsOverwrite(model, bundle, i + 1,
            [loss |-> client_test_res[1],
             accuracy |-> client_test_res[2],
             tests |-> Append(acc.tests,
                         [loader |-> i, label |-> bundle.label_split[i]])])

(***************************************************************************)
(* The per-client loop: client i's loader is tested with label_split[i];   *)
(* loss and accuracy are added to running totals that start at 0.          *)
(***************************************************************************)
RECURSIVE LocalMetrics(_, _, _, _)
LocalMetrics(model, bundle, i, acc) ==
  IF i > Len(bundle.valloaders) THEN acc
  ELSE LET client_test_res == Test(model, bundle.valloaders[i])
       IN LocalMetrics(model, bundle, i + 1,
            [loss |-> acc.loss + client_test_res[1],
             accuracy |-> acc.accuracy + client_test_res[2],
             tests |-> Append(acc.tests,
                         [loader |-> i, label |-> bundle.label_split[i]])])

(***************************************************************************)
(* Variant of CheckpointDue: a checkpoint every 10 rounds.                 *)
(***************************************************************************)
CheckpointDueTen(server_round) == server_round % 10 = 0

(***************************************************************************)
(* The checkpoint condition of the callback.                               *)
(***************************************************************************)
CheckpointDue(server_round) == server_round % 100 = 0

(***************************************************************************)
(* Variant of Skipped: the two conditions joined by "or".                  *)
(***************************************************************************)
SkippedOr(server_round) == server_round % 5 # 0 \/ server_round < 395

(***************************************************************************)
(* The gate of the callback.                                               *)
(***************************************************************************)
Skipped(server_round) == server_round % 5 # 0 /\ server_round < 395

(***************************************************************************)
(* The round the orchestrator passes next: rounds come in order, from 0.   *)
(***************************************************************************)
NextRounds == {r \in 0..MaxRound : r = ev.server_round + 1}

(***************************************************************************)
(* gen_evaluate_fn.evaluate(server_round, parameters_ndarrays, config).    *)
(* ev records what the invocation did: how it ended, the state-dict        *)
(* entries copied into the model, the checkpoints written, the passes      *)
(* over the entire-train loader, the per-client test calls and the         *)
(* global test calls.                                                      *)
(***************************************************************************)
Evaluate(server_round, parameters_ndarrays) ==
  /\ IF Skipped(server_round)
       THEN /\ ev' = [outcome |-> "returned", server_round |-> server_round,
                      nparams |-> Len(parameters_ndarrays), exc |-> "",
                      loss |-> 1, metrics |-> <<>>, copied |-> 0,
                      saved |-> <<>>, train_passes |-> 0, tests |-> <<>>,
                      global_tests |-> 0]
            /\ net' = net
       ELSE LET loaded == LoadStateDict(net, ZipStateDict(net, parameters_ndarrays))
            IN IF loaded.exc # ""
                 THEN /\ ev' = [outcome |-> "raised",
                                server_round |-> server_round,
                                nparams |-> Len(parameters_ndarrays),
                                exc |-> loaded.exc, loss |-> 0,
                                metrics |-> <<>>, copied |-> loaded.copied,
                                saved |-> <<>>,
                                train_passes |-> 0, tests |-> <<>>,
                                global_tests |-> 0]
                      /\ net' = loaded.model
                 ELSE LET saved ==
                            IF CheckpointDue(server_round)
                              THEN <<SaveModel(loaded.model,
                                               CheckpointName(server_round))>>
                              ELSE <<>>
                          refreshed == StatsPass(loaded.model)
                          local_metrics ==
                            LocalMetrics(refreshed, loaders, 1,
                              [loss |-> 0, accuracy |-> 0, tests |-> <<>>])
                          global_metrics == Test(refreshed, TestLoaderStub)
                      IN /\ ev' = [outcome |-> "returned",
                                   server_round |-> server_round,
                                   nparams |-> Len(parameters_ndarrays),
                                   exc |-> "",
                                   loss |-> global_metrics[1],
                                   metrics |->
                                     [global_accuracy |-> global_metrics[2],
                                      local_loss |-> local_metrics.loss,
                                      local_accuracy |-> local_metrics.accuracy],
                                   copied |-> loaded.copied,
                                   saved |-> saved,
                                   train_passes |-> 1,
                                   tests |-> local_metrics.tests,
                                   global_tests |-> 1]
                         /\ net' = refreshed
  /\ UNCHANGED loaders
  /\ UNCHANGED schedVars

(***************************************************************************)
(* Scheduler runs: no scheduler constructed yet; the callback is not used. *)
(***************************************************************************)
SchedInit ==
  /\ sched = NoSched
  /\ call = NoCall
  /\ ref = NoRef
  /\ net = [k \in 1..NumKeys |-> 0]
  /\ loaders = [valloaders |-> <<>>, label_split |-> <<>>]
  /\ ev = NoEval

(***************************************************************************)
(* Callback runs: gen_evaluate_fn has bound a fresh model and one of the   *)
(* data bundles; the scheduler is not used.                                *)
(***************************************************************************)
EvalInit ==
  /\ sched = NoSched
  /\ call = NoCall
  /\ ref = NoRef
  /\ net = [k \in 1..NumKeys |-> 0]
  /\ loaders \in Bundles
  /\ ev = NoEval

(***************************************************************************)
(* A run constructs one scheduler, then calls it any number of times.      *)
(***************************************************************************)
SchedNext ==
  \/ /\ ~sched.constructed
     /\ \E m \in SplitModes, s \in ModeStrings : Construct(m, s)
  \/ \E n \in Users : CreateModelRateMapping(n)

EvalNext ==
  \E r \in NextRounds, p \in ParamLists : Evaluate(r, p)

SpecSched == SchedInit /\ [][SchedNext]_vars

SpecEval == EvalInit /\ [][EvalNext]_vars

Init ==
  /\ sched = NoSched
  /\ call = NoCall
  /\ ref = NoRef
  /\ net = [k \in 1..NumKeys |-> 0]
  /\ loaders \in Bundles
  /\ ev = NoEval

Next ==
  \/ /\ ~sched.constructed
     /\ \E m \in SplitModes, s \in ModeStrings : Construct(m, s)
  \/ \E n \in Users : CreateModelRateMapping(n)
  \/ \E r \in NextRounds, p \in ParamLists : Evaluate(r, p)

Spec == Init /\ [][Next]_vars

(***************************************************************************)
(* Vocabulary of the properties.                                           *)
(***************************************************************************)
Parsed == ParseModes(sched.model_mode, <<>>, <<>>)
SumProps == SumSeq(Parsed.proportion)
LastRate == Parsed.mode_rate[Len(Parsed.mode_rate)]
PrefixSum(i) == SumSeq(SubSeq(Parsed.proportion, 1, i))

BadToken(toks) ==
  \E i \in 1..Len(toks) :
    /\ Len(toks[i]) > 0
    /\ \/ toks[i][1] \notin DOMAIN Catalogue
       \/ ~IsIntLiteral(Tail(toks[i]))

Malformed(toks) ==
  \/ BadToken(toks)
  \/ \E i \in 1..Len(toks) : Len(toks[i]) = 0

FixCalled ==
  /\ sched.constructed
  /\ sched.model_split_mode = "fix"
  /\ call.outcome # "none"

LegalFixCall ==
  /\ FixCalled
  /\ ~Malformed(sched.model_mode)
  /\ SumProps > 0
  /\ call.num_users >= 0

Qualifies(r) == r % 5 = 0 \/ r >= 395

EvalCalled == ev.outcome # "none"

IsSentinel ==
  /\ ev.outcome = "returned"
  /\ ev.loss = 1
  /\ DOMAIN ev.metrics = {}

NoSideEffect ==
  /\ ev.copied = 0
  /\ ev.saved = <<>>
  /\ ev.train_passes = 0
  /\ ev.tests = <<>>
  /\ ev.global_tests = 0

FullEvaluation ==
  /\ ev.outcome = "returned"
  /\ DOMAIN ev.metrics = {"global_accuracy", "local_loss", "local_accuracy"}
  /\ ev.copied = NumKeys
  /\ ev.train_passes = 1
  /\ Len(ev.tests) = Len(loaders.valloaders)
  /\ ev.global_tests = 1

(***************************************************************************)
(* C1: in fix mode, for every num_users >= 0 and every well-formed mode    *)
(* string whose proportions sum to more than 0, the call returns a list    *)
(* of exactly num_users rates.                                             *)
(***************************************************************************)
C1_FixLengthIsNumUsers ==
  LegalFixCall =>
    /\ call.outcome = "returned"
    /\ Len(call.value) = call.num_users

(***************************************************************************)
(* C2: in fix mode, when num_users = k * sum(proportions) with k >= 1, the *)
(* result is the blocks of k * proportion[i] copies of level i's rate, in  *)
(* the order of the mode string, and nothing else.                         *)
(***************************************************************************)
C2_ExactBlocks ==
  (LegalFixCall /\ call.num_users >= 1 /\ call.num_users % SumProps = 0) =>
    LET k == call.num_users \div SumProps IN
      /\ call.outcome = "returned"
      /\ Len(call.value) = call.num_users
      /\ \A i \in 1..Len(Parsed.proportion) :
           \A j \in (k * PrefixSum(i - 1) + 1)..(k * PrefixSum(i)) :
             call.value[j] = Parsed.mode_rate[i]

C2_Witness ==
  /\ FixCalled
  /\ sched.model_mode = << <<"a", "1">>, <<"b", "2">> >>
  /\ call.num_users = 6
  /\ call.value = <<16, 16, 8, 8, 8, 8>>

(***************************************************************************)
(* C3: in fix mode, when base_count * sum(proportions) < num_users, the    *)
(* call returns and every position from base_count * sum(proportions) on   *)
(* holds the rate of the last level of the mode string.                    *)
(***************************************************************************)
C3_TailIsLastLevel ==
  LET base_count == call.num_users \div SumProps IN
    (LegalFixCall /\ base_count * SumProps < call.num_users) =>
      /\ call.outcome = "returned"
      /\ Len(call.value) = call.num_users
      /\ \A j \in (base_count * SumProps + 1)..call.num_users :
           call.value[j] = LastRate

(***************************************************************************)
(* C4 as stated: the callback performs a full evaluation if and only if    *)
(* round % 5 = 0 or round >= 395; on every other round it returns the      *)
(* sentinel (1, {}), copies nothing into the model, writes no checkpoint   *)
(* and runs no loader.                                                     *)
(***************************************************************************)
C4_FullIffQualifies ==
  EvalCalled =>
    /\ FullEvaluation <=> Qualifies(ev.server_round)
    /\ ~Qualifies(ev.server_round) => IsSentinel /\ NoSideEffect

(***************************************************************************)
(* C4 amended: the callback performs a full evaluation if and only if      *)
(* round % 5 = 0 or round >= 395 and the parameter load does not raise     *)
(* (the arrays cover the model's state); on a qualifying round whose load  *)
(* raises, the callback raises and returns neither the sentinel nor        *)
(* metrics; on every other round it returns the sentinel (1, {}), copies   *)
(* nothing into the model, writes no checkpoint and runs no loader.        *)
(***************************************************************************)
C4_Gate ==
  EvalCalled =>
    /\ FullEvaluation <=>
         (Qualifies(ev.server_round) /\ ev.nparams >= NumKeys)
    /\ (Qualifies(ev.server_round) /\ ev.nparams < NumKeys) =>
         /\ ev.outcome = "raised"
         /\ ~IsSentinel
         /\ DOMAIN ev.metrics = {}
         /\ ev.saved = <<>>
         /\ ev.train_passes = 0
         /\ ev.tests = <<>>
         /\ ev.global_tests = 0
    /\ ~Qualifies(ev.server_round) => IsSentinel /\ NoSideEffect

C4_Witness ==
  /\ ev.server_round = 396
  /\ ev.server_round % 5 # 0
  /\ FullEvaluation
  /\ ev.nparams = NumKeys
  /\ net[NumKeys] = TrainStats

(***************************************************************************)
(* C5 as stated: an invocation writes a checkpoint if and only if its      *)
(* round is a multiple of 100.                                             *)
(***************************************************************************)
C5_WriteIffMultipleOf100 ==
  EvalCalled => (ev.saved # <<>> <=> ev.server_round % 100 = 0)

(***************************************************************************)
(* C5 amended: an invocation writes a checkpoint if and only if its round  *)
(* is a multiple of 100 and the parameter load did not raise; the one      *)
(* file written is named from that round.                                  *)
(***************************************************************************)
C5_WriteIffMultipleOf100AndLoaded ==
  EvalCalled =>
    /\ ev.saved # <<>> <=>
         (ev.server_round % 100 = 0 /\ ev.outcome # "raised")
    /\ ev.saved # <<>> =>
         /\ Len(ev.saved) = 1
         /\ ev.saved[1].path = <<"output_dir",
                                 <<"model_after_round_", ev.server_round,
                                   ".pth">> >>

C5_Witness ==
  /\ ev.server_round = 400
  /\ Len(ev.saved) = 1
  /\ ev.saved[1].path[2][2] = 400

(***************************************************************************)
(* C6: on a qualifying round, a number of parameter arrays other than the  *)
(* number of state entries of the model makes the callback raise, with     *)
(* nothing copied into the model, no checkpoint, no loader run and no      *)
(* metrics.                                                                *)
(***************************************************************************)
C6_MismatchFailsFast ==
  (EvalCalled /\ Qualifies(ev.server_round) /\ ev.nparams # NumKeys) =>
    /\ ev.outcome = "raised"
    /\ NoSideEffect
    /\ DOMAIN ev.metrics = {}

(***************************************************************************)
(* C7: no scheduler is ever constructed from a mode string with a token    *)
(* whose level is not a key of the catalogue or whose proportion is not    *)
(* an integer.                                                             *)
(***************************************************************************)
C7_MalformedRejectedAtConstruction ==
  sched.constructed => ~BadToken(sched.model_mode)

(***************************************************************************)
(* C8: a full evaluation returns as local_loss and local_accuracy the sums *)
(* of the per-client test results, each client tested once, in order,      *)
(* with the label subset of its own index; with no client loaders both     *)
(* are 0 and the global result is still returned.                          *)
(***************************************************************************)
C8_LocalSums ==
  (EvalCalled /\ ev.outcome = "returned" /\ Qualifies(ev.server_round)) =>
    LET n == Len(loaders.valloaders) IN
      /\ ev.metrics.local_loss
           = SumSeq([i \in 1..n |-> loaders.valloaders[i].loss])
      /\ ev.metrics.local_accuracy
           = SumSeq([i \in 1..n |-> loaders.valloaders[i].accuracy])
      /\ ev.tests = [i \in 1..n |->
                       [loader |-> i, label |-> loaders.label_split[i]]]
      /\ n = 0 => ev.metrics.local_loss = 0 /\ ev.metrics.local_accuracy = 0
      /\ ev.loss = TestLoaderStub.loss
      /\ ev.metrics.global_accuracy = TestLoaderStub.accuracy

C8_Witness ==
  /\ EvalCalled
  /\ ev.outcome = "returned"
  /\ Qualifies(ev.server_round)
  /\ Len(loaders.valloaders) = 2
  /\ loaders.valloaders[1] # loaders.valloaders[2]
  /\ ev.metrics.local_loss = 3
  /\ ev.metrics.local_accuracy = 1

(***************************************************************************)
(* C9: with a split mode other than "fix" and "dynamic" the scheduler is   *)
(* constructed and every call returns None, whatever num_users and the     *)
(* mode string are.                                                        *)
(***************************************************************************)
C9_UnknownModeReturnsNone ==
  /\ (~sched.constructed) =>
       \A m \in SplitModes \ {"fix", "dynamic"}, s \in ModeStrings :
         ENABLED Construct(m, s)
  /\ (sched.constructed /\ sched.model_split_mode \notin {"fix", "dynamic"}
        /\ call.outcome # "none") =>
       /\ call.outcome = "returned"
       /\ call.isNone

C9_Witness ==
  /\ sched.constructed
  /\ sched.model_split_mode = "bogus"
  /\ Malformed(sched.model_mode)
  /\ call.num_users = 3
  /\ call.outcome = "returned"
  /\ call.isNone

(***************************************************************************)
(* C10: in fix mode a call with the num_users of an earlier call ends as   *)
(* that call did, with the same list, whatever calls came in between, and  *)
(* no call changes the scheduler.                                          *)
(***************************************************************************)
C10_SameAsEarlierCall ==
  (FixCalled /\ ref.set /\ ~ref.fresh /\ call.num_users = ref.num_users) =>
    /\ call.outcome = ref.outcome
    /\ call.exc = ref.exc
    /\ call.value = ref.value

C10_FixDeterministic ==
  /\ []C10_SameAsEarlierCall
  /\ [][sched.constructed => sched' = sched]_vars

C10_Witness ==
  /\ FixCalled
  /\ ref.set
  /\ ~ref.fresh
  /\ ref.other
  /\ call.num_users = ref.num_users
  /\ call.outcome = "returned"
  /\ call.value = ref.value
  /\ Len(call.value) = 5
  /\ call.value[1] # call.value[5]
====
